---- MODULE Spec2Model ----
(***************************************************************************)
(* Model of src/watcher.py: the LogWatcher of a blue/green deployment.     *)
(* One LogWatcher instance, its configuration read once in __init__, its   *)
(* state (last_pool, request_window, last_alert_time), the wall clock it   *)
(* reads with time.time(), and the Slack transport it posts to.            *)
(***************************************************************************)
EXTENDS Integers, Sequences, FiniteSets, TLC

----------------------------------------------------------------------------
(* Bounds of the exploration.                                              *)

\* The wall clock runs over 0..MaxTime (seconds).
MaxTime == 5

\* The interval of the error-rate check in process_log_line.
DecimationInterval == 10

\* A requests.post call takes 0..MaxDelay seconds to answer (or to fail).
MaxDelay == 1

\* The statuses of the first MaxHistory records are remembered in `history`.
MaxHistory == 5

\* `breachRun` saturates at MaxRun.
MaxRun == 11

\* The log file holds at most MaxFile characters.
MaxFile == 4

\* The log file is removed (rotated away) at most MaxRemovals times.
MaxRemovals == 2

----------------------------------------------------------------------------
(* Values.                                                                 *)

\* Python's None, as the value of last_pool before any pool was seen.
None == "<None>"

\* upstream_status values as character strings.
S200 == <<"2", "0", "0">>
S502 == <<"5", "0", "2">>
S000 == <<"0", "0", "0">>
SDash == <<"-">>

\* upstream_addr values: one address, host:port.
Addr1 == <<"1", ":", "8">>
Addr2 == <<"2", ":", "8">>

\* A request that the proxy retried on a second upstream: the proxy logs
\* the statuses and the addresses of the attempts as comma-separated lists,
\* with a space after the comma (RetriedSpaced) or without (RetriedTight).
RetriedSpaced ==
    [upstream_status |-> S502 \o <<",", " ">> \o S200,
     upstream_addr |-> Addr1 \o <<",", " ">> \o Addr2]
RetriedTight ==
    [upstream_status |-> S502 \o <<",">> \o S200,
     upstream_addr |-> Addr1 \o <<",">> \o Addr2]

\* Answers of the transport: HTTP 200, another HTTP status, an exception
\* raised by requests.post (connection error, timeout).
Responses == {"200", "500", "exception"}

\* A deployment: the environment variables read by __init__ (window_size,
\* cooldown_sec, error_threshold in percent, maintenance_mode, whether
\* SLACK_WEBHOOK_URL is set), the pool names and the upstream statuses the
\* proxy logs in this deployment ("-" is the proxy's "absent" value), and
\* the clock value at construction. Unless said otherwise the client gets
\* status 200 and no request is retried.
Deployment(n, mute, hook, ps, ss, t0) ==
    [window_size |-> n, cooldown_sec |-> 2, error_threshold |-> 20,
     maintenance_mode |-> mute, slack_webhook |-> hook,
     pools |-> ps, statuses |-> ss, start |-> t0,
     client_statuses |-> {S200}, retries |-> {}]

\* The deployment dep where the proxy also answers the client with 502 and
\* retries requests on a second upstream.
WithRetries(dep) ==
    [dep EXCEPT !.client_statuses = {S200, S502},
                !.retries = {RetriedSpaced, RetriedTight}]

\* The deployments explored.
Deployments ==
    { \* two pools that fail over, a healthy upstream
      Deployment(3, FALSE, TRUE, {"blue", "green", "-"}, {S200}, 0),
      \* two pools whose names differ in case only
      Deployment(3, FALSE, TRUE, {"blue", "Blue"}, {S200}, 0),
      \* one pool, an upstream that fails on every request
      Deployment(10, FALSE, TRUE, {"blue"}, {S502}, 0),
      \* two pools that fail over and an upstream that fails on every request
      Deployment(10, FALSE, TRUE, {"blue", "green"}, {S502}, MaxTime - 1),
      \* the same, muted, and without a webhook
      Deployment(10, TRUE, TRUE, {"blue", "green"}, {S502}, 0),
      Deployment(10, FALSE, FALSE, {"blue", "green"}, {S502}, 0),
      \* one pool, an upstream that fails on some requests
      Deployment(10, FALSE, TRUE, {"blue"}, {S200, S502}, MaxTime),
      \* window sizes that are no multiple of 10
      Deployment(3, FALSE, TRUE, {"blue"}, {S200, S502, SDash}, MaxTime),
      Deployment(11, FALSE, TRUE, {"blue"}, {S502}, MaxTime),
      \* two pools, a healthy upstream, client errors and retried requests
      WithRetries(Deployment(3, FALSE, TRUE, {"blue", "green"}, {S200},
                             MaxTime)) }

----------------------------------------------------------------------------
VARIABLES
    \* configuration (src/watcher.py:19-23) and environment
    slack_webhook,      \* TRUE iff SLACK_WEBHOOK_URL is set
    error_threshold,    \* percent
    window_size,
    cooldown_sec,
    maintenance_mode,
    pools,              \* pool names the proxy logs here
    statuses,           \* upstream statuses the proxy logs here
    client_statuses,    \* statuses the proxy answers the client with here
    retries,            \* how the proxy logs retried requests here
    \* state of the watcher (src/watcher.py:27-29)
    last_pool,
    request_window,
    last_alert_time,
    \* the wall clock read by time.time()
    now,
    \* observation of the last process_log_line call
    last_line,          \* the line it was called with
    data,               \* what parse_log_line returned
    prev_pool,          \* last_pool when it was called
    after_unknown,      \* TRUE iff the call before it was for a record
                        \* with pool 'unknown'
    attempts,           \* the send_slack_alert calls it made, in order
    \* history
    seen,               \* records processed, saturating at MaxHistory + 1
    history,            \* their statuses, while seen <= MaxHistory
    breachRun,          \* records processed in a row that left a full
                        \* window above the threshold and sent no
                        \* error-rate alert, saturating at MaxRun
    sinceEmit,          \* records processed since the last error-rate
                        \* alert, saturating at window_size; -1 if none
    deliveredKey,       \* alert_type -> time of its last delivery
    deliveredEvent,     \* <<kind, from, to>> -> time of its last delivery
    \* the log file at log_file_path
    file_exists,
    file,               \* its content, a sequence of characters
    removals,           \* how many times it was removed so far
    \* state of the line source (src/watcher.py:30-31)
    last_file_position,
    file_checked,
    \* observation of the read_new_lines calls
    new_lines,          \* what the last call returned
    returned,           \* all it returned from the file that exists now
    first_poll          \* what the first call on the file that exists now
                        \* found: "shrunk" (size < last_file_position),
                        \* "grown" (size >= last_file_position > 0),
                        \* "fresh" (last_file_position = 0); "pending"
                        \* before that call

config == <<slack_webhook, error_threshold, window_size, cooldown_sec,
            maintenance_mode, pools, statuses, client_statuses, retries>>
state == <<last_pool, request_window, last_alert_time>>
observed == <<last_line, data, prev_pool, after_unknown, attempts, seen, history, breachRun,
              sinceEmit, deliveredKey, deliveredEvent>>
source == <<file_exists, file, removals, last_file_position, file_checked,
            new_lines, returned, first_poll>>
vars == <<config, state, now, observed, source>>

----------------------------------------------------------------------------
(* Helpers.                                                                *)

Min(a, b) == IF a < b THEN a ELSE b

\* dict.get(key, default)
Get(d, k, default) == IF k \in DOMAIN d THEN d[k] ELSE default

\* d[k] = v
Put(d, k, v) == [x \in DOMAIN d \cup {k} |-> IF x = k THEN v ELSE d[x]]

\* The last k elements of s.
LastK(s, k) == SubSeq(s, Len(s) - k + 1, Len(s))

\* str.upper() on the pool names used.
Upper(s) ==
    CASE s = "blue" -> "BLUE"
      [] s = "Blue" -> "BLUE"
      [] s = "green" -> "GREEN"
      [] s = "unknown" -> "UNKNOWN"
      [] s = None -> "<NONE>"

\* The value of a decimal digit, -1 for any other character.
DigitValue(c) ==
    CASE c = "0" -> 0 [] c = "1" -> 1 [] c = "2" -> 2 [] c = "3" -> 3
      [] c = "4" -> 4 [] c = "5" -> 5 [] c = "6" -> 6 [] c = "7" -> 7
      [] c = "8" -> 8 [] c = "9" -> 9 [] OTHER -> -1

\* int(s) for a string of decimal digits; ValueError otherwise.
ValueError == -1
RECURSIVE DigitsValue(_)
DigitsValue(s) ==
    IF s = <<>> THEN 0
    ELSE DigitsValue(SubSeq(s, 1, Len(s) - 1)) * 10 + DigitValue(s[Len(s)])
ParseInt(s) ==
    IF s = <<>> \/ \E i \in 1..Len(s) : DigitValue(s[i]) = -1
    THEN ValueError
    ELSE DigitsValue(s)

----------------------------------------------------------------------------
(* The methods of LogWatcher.                                              *)

\* A line of the log: whether it is an access-log line in the proxy's
\* key=value format (shaped), and then the text that follows pool=,
\* upstream_status= and upstream_addr=, and the status sent to the client,
\* for which the format read by log_pattern has no key.
AccessLine(pool, upstream_status, upstream_addr, status) ==
    [shaped |-> TRUE, pool |-> pool, upstream_status |-> upstream_status,
     upstream_addr |-> upstream_addr, status |-> status]

\* A line that is no access-log line (a startup banner, a foreign format).
Banner == [shaped |-> FALSE]

\* TRUE iff every character of s is one of the set chars.
AllIn(s, chars) == \A i \in 1..Len(s) : s[i] \in chars

\* log_pattern.search(line) finds a match: upstream_status=(\S+) must be
\* followed by whitespace and upstream_addr=([\d\.:]+), itself followed by
\* whitespace and request_time=.
LogPatternMatches(line) ==
    /\ line.shaped
    /\ line.upstream_status # <<>>
    /\ \A i \in 1..Len(line.upstream_status) : line.upstream_status[i] # " "
    /\ line.upstream_addr # <<>>
    /\ AllIn(line.upstream_addr,
             {"0", "1", "2", "3", "4", "5", "6", "7", "8", "9", ".", ":"})

\* Mutant of ParseLogLine: a line without match yields a record of defaults
\* instead of None.
ParseLogLineLenient(line) ==
    IF LogPatternMatches(line)
    THEN [ok |-> TRUE,
          pool |-> IF line.pool = "-" THEN "unknown" ELSE line.pool,
          upstream_status |-> IF line.upstream_status = SDash THEN S000
                              ELSE line.upstream_status]
    ELSE [ok |-> TRUE, pool |-> "unknown", upstream_status |-> S000]

\* parse_log_line: the groups pool and upstream_status of the match, cleaned
\* up, or None ([ok |-> FALSE]).
ParseLogLine(line) ==
    IF LogPatternMatches(line)
    THEN [ok |-> TRUE,
          pool |-> IF line.pool = "-" THEN "unknown" ELSE line.pool,
          upstream_status |-> IF line.upstream_status = SDash THEN S000
                              ELSE line.upstream_status]
    ELSE [ok |-> FALSE]

\* Mutant of IsServerError: the lower bound is missing.
IsServerErrorNoLowerBound(status_code) ==
    LET v == ParseInt(status_code)
    IN  v # ValueError /\ v < 600

\* is_server_error
IsServerError(status_code) ==
    LET v == ParseInt(status_code)
    IN  v # ValueError /\ 500 <= v /\ v < 600

\* The error_count of calculate_error_rate.
RECURSIVE ErrorCount(_)
ErrorCount(w) ==
    IF w = <<>> THEN 0
    ELSE (IF IsServerError(Head(w)) THEN 1 ELSE 0) + ErrorCount(Tail(w))

\* calculate_error_rate() > error_threshold, in exact arithmetic:
\* (error_count / len) * 100 > threshold; 0.0 for the empty window.
RateExceeds(w, threshold) ==
    IF w = <<>> THEN 0 > threshold
    ELSE ErrorCount(w) * 100 > threshold * Len(w)

\* Mutant of DequeAppend: a list that is never trimmed.
DequeAppendUnbounded(w, x, n) == Append(w, x)

\* deque(maxlen = n).append(x)
DequeAppend(w, x, n) ==
    IF n = 0 THEN <<>>
    ELSE IF Len(w) < n THEN Append(w, x)
    ELSE Append(Tail(w), x)

\* Mutant of CanSendAlert: the cooldown must be strictly exceeded.
CanSendAlertStrict(tab, t, alert_type) ==
    (t - Get(tab, alert_type, 0)) > cooldown_sec

\* can_send_alert at clock value t
CanSendAlert(tab, t, alert_type) ==
    (t - Get(tab, alert_type, 0)) >= cooldown_sec

\* The table after a successful delivery acknowledged at clock value t.
RecordDelivery(tab, alert_type, t) == Put(tab, alert_type, t)

\* Mutant of SendSlackAlert: the table is stamped before the answer of the
\* transport is known, so a failed delivery starts a cooldown too.
SendSlackAlertStampsFailure(tab, t, alert_type, resp, d) ==
    IF maintenance_mode
    THEN [ret |-> FALSE, outcome |-> "SuppressedMuted", posted |-> FALSE,
          tab |-> tab, t |-> t]
    ELSE IF ~CanSendAlert(tab, t, alert_type)
    THEN [ret |-> FALSE, outcome |-> "SuppressedCooldown", posted |-> FALSE,
          tab |-> tab, t |-> t]
    ELSE IF ~slack_webhook
    THEN [ret |-> FALSE, outcome |-> "Failed", posted |-> FALSE,
          tab |-> tab, t |-> t]
    ELSE [ret |-> resp = "200",
          outcome |-> IF resp = "200" THEN "Delivered" ELSE "Failed",
          posted |-> TRUE,
          tab |-> RecordDelivery(tab, alert_type, t + d), t |-> t + d]

\* Mutant of SendSlackAlert: the cooldown is checked before the mute.
SendSlackAlertCooldownFirst(tab, t, alert_type, resp, d) ==
    IF ~CanSendAlert(tab, t, alert_type)
    THEN [ret |-> FALSE, outcome |-> "SuppressedCooldown", posted |-> FALSE,
          tab |-> tab, t |-> t]
    ELSE IF maintenance_mode
    THEN [ret |-> FALSE, outcome |-> "SuppressedMuted", posted |-> FALSE,
          tab |-> tab, t |-> t]
    ELSE IF ~slack_webhook
    THEN [ret |-> FALSE, outcome |-> "Failed", posted |-> FALSE,
          tab |-> tab, t |-> t]
    ELSE IF resp = "200"
    THEN [ret |-> TRUE, outcome |-> "Delivered", posted |-> TRUE,
          tab |-> RecordDelivery(tab, alert_type, t + d), t |-> t + d]
    ELSE [ret |-> FALSE, outcome |-> "Failed", posted |-> TRUE,
          tab |-> tab, t |-> t + d]

\* Mutant of SendSlackAlert: the webhook is not tested for being set.
SendSlackAlertNoWebhookCheck(tab, t, alert_type, resp, d) ==
    IF maintenance_mode
    THEN [ret |-> FALSE, outcome |-> "SuppressedMuted", posted |-> FALSE,
          tab |-> tab, t |-> t]
    ELSE IF ~CanSendAlert(tab, t, alert_type)
    THEN [ret |-> FALSE, outcome |-> "SuppressedCooldown", posted |-> FALSE,
          tab |-> tab, t |-> t]
    ELSE IF resp = "200"
    THEN [ret |-> TRUE, outcome |-> "Delivered", posted |-> TRUE,
          tab |-> RecordDelivery(tab, alert_type, t + d), t |-> t + d]
    ELSE [ret |-> FALSE, outcome |-> "Failed", posted |-> TRUE,
          tab |-> tab, t |-> t + d]

\* send_slack_alert called at clock value t; the transport, if it is called,
\* answers resp after d seconds. The result: what the method returns (ret),
\* the outcome as the log tells it, whether requests.post was called, and
\* the table and the clock when the method returns.
SendSlackAlert(tab, t, alert_type, resp, d) ==
    IF maintenance_mode
    THEN [ret |-> FALSE, outcome |-> "SuppressedMuted", posted |-> FALSE,
          tab |-> tab, t |-> t]
    ELSE IF ~CanSendAlert(tab, t, alert_type)
    THEN [ret |-> FALSE, outcome |-> "SuppressedCooldown", posted |-> FALSE,
          tab |-> tab, t |-> t]
    ELSE IF ~slack_webhook
    THEN [ret |-> FALSE, outcome |-> "Failed", posted |-> FALSE,
          tab |-> tab, t |-> t]
    ELSE IF resp = "200"
    THEN [ret |-> TRUE, outcome |-> "Delivered", posted |-> TRUE,
          tab |-> RecordDelivery(tab, alert_type, t + d), t |-> t + d]
    ELSE [ret |-> FALSE, outcome |-> "Failed", posted |-> TRUE,
          tab |-> tab, t |-> t + d]

\* The alert type of a pool-level failover.
FailoverType(from, to) == "FAILOVER_" \o Upper(from) \o "_TO_" \o Upper(to)

\* Mutant of IsFailover: last_pool is not tested for being set.
IsFailoverFromNothing(last, current_pool) ==
    /\ last # current_pool
    /\ current_pool # "unknown"
    /\ last # "unknown"

\* Mutant of IsFailover: the two pools are not compared.
IsFailoverOnEveryRecord(last, current_pool) ==
    /\ last # None
    /\ current_pool # "unknown"
    /\ last # "unknown"

\* The condition of detect_failover.
IsFailover(last, current_pool) ==
    /\ last # None
    /\ last # current_pool
    /\ current_pool # "unknown"
    /\ last # "unknown"

\* What a method that does not call send_slack_alert leaves: the table tab
\* and the clock value t as they were.
NotCalled(tab, t) ==
    [called |-> FALSE, from |-> "", to |-> "", alert_type |-> "",
     res |-> [ret |-> FALSE, outcome |-> "", posted |-> FALSE,
              tab |-> tab, t |-> t]]

\* detect_failover(current_pool) called at clock value t with last_pool =
\* last: whether it called send_slack_alert, for which pools (the message
\* names them), with which alert type, and what that call did.
DetectFailover(last, current_pool, tab, t, resp, d) ==
    IF IsFailover(last, current_pool)
    THEN [called |-> TRUE, from |-> last, to |-> current_pool,
          alert_type |-> FailoverType(last, current_pool),
          res |-> SendSlackAlert(tab, t, FailoverType(last, current_pool),
                                 resp, d)]
    ELSE NotCalled(tab, t)

\* Mutant of WindowNotFull: the guard is missing.
WindowNotFullSkipped(w) == FALSE

\* The guard of monitor_error_rate: the window is not full yet.
WindowNotFull(w) == Len(w) < window_size

\* monitor_error_rate() called at clock value t on window w.
MonitorErrorRate(w, tab, t, resp, d) ==
    IF ~WindowNotFull(w) /\ RateExceeds(w, error_threshold)
    THEN [called |-> TRUE, from |-> "", to |-> "",
          alert_type |-> "HIGH_ERROR_RATE",
          res |-> SendSlackAlert(tab, t, "HIGH_ERROR_RATE", resp, d)]
    ELSE NotCalled(tab, t)

\* The condition under which process_log_line calls monitor_error_rate.
Decimated(w) == Len(w) % DecimationInterval = 0

----------------------------------------------------------------------------
(* What the model records of a send_slack_alert call: the event (kind,     *)
(* from, to), the alert type it was sent under, the outcome, whether the   *)
(* transport was called, the clock at the call (at) and at the return      *)
(* (done), the time of the last earlier delivery of the same alert type    *)
(* (prevKey) and of the same event (prevEvent), -1 if none, and the number *)
(* of records processed since the last earlier call for an event of this   *)
(* kind, this record included (gap), -1 if there was none.                 *)
Attempt(kind, call, t) ==
    [kind |-> kind, from |-> call.from, to |-> call.to,
     alert_type |-> call.alert_type,
     outcome |-> call.res.outcome, posted |-> call.res.posted,
     at |-> t, done |-> call.res.t,
     prevKey |-> Get(deliveredKey, call.alert_type, -1),
     prevEvent |-> Get(deliveredEvent, <<kind, call.from, call.to>>, -1),
     gap |-> IF kind = "HighErrorRate" /\ sinceEmit >= 0
             THEN sinceEmit + 1 ELSE -1]

RECURSIVE NoteDeliveries(_, _, _)
NoteDeliveries(atts, byKey, byEvent) ==
    IF atts = <<>> THEN <<byKey, byEvent>>
    ELSE LET a == Head(atts)
         IN  IF a.outcome = "Delivered"
             THEN NoteDeliveries(Tail(atts),
                                 Put(byKey, a.alert_type, a.done),
                                 Put(byEvent, <<a.kind, a.from, a.to>>, a.done))
             ELSE NoteDeliveries(Tail(atts), byKey, byEvent)

----------------------------------------------------------------------------
Init ==
    /\ \E dep \in Deployments :
          /\ slack_webhook = dep.slack_webhook
          /\ error_threshold = dep.error_threshold
          /\ window_size = dep.window_size
          /\ cooldown_sec = dep.cooldown_sec
          /\ maintenance_mode = dep.maintenance_mode
          /\ pools = dep.pools
          /\ statuses = dep.statuses
          /\ client_statuses = dep.client_statuses
          /\ retries = dep.retries
          /\ now = dep.start
    /\ last_pool = None
    /\ request_window = <<>>
    /\ last_alert_time = <<>>
    /\ last_line = Banner
    /\ data = [ok |-> FALSE]
    /\ prev_pool = None
    /\ after_unknown = FALSE
    /\ attempts = <<>>
    /\ seen = 0
    /\ history = <<>>
    /\ breachRun = 0
    /\ sinceEmit = -1
    /\ deliveredKey = <<>>
    /\ deliveredEvent = <<>>
    /\ file_exists = FALSE
    /\ file = <<>>
    /\ removals = 0
    /\ last_file_position = 0
    /\ file_checked = FALSE
    /\ new_lines = <<>>
    /\ returned = <<>>
    /\ first_poll = "pending"

\* The lines the proxy can write.
Lines ==
    {Banner}
    \cup {AccessLine(p, u, Addr1, c) :
             p \in pools, u \in statuses, c \in client_statuses}
    \cup {AccessLine(p, r.upstream_status, r.upstream_addr, c) :
             p \in pools, r \in retries, c \in client_statuses}

\* Mutant of NextLastPool: last_pool is assigned for every record.
NextLastPoolAlways(last, pool) == pool

\* last_pool after process_log_line on a record of this pool (lines 199,
\* 201).
NextLastPool(last, pool) == IF pool # "unknown" THEN pool ELSE last

\* The detect_failover step of process_log_line (lines 199-200).
FailoverStep(parsed, r1, d1) ==
    IF parsed.pool # "unknown"
    THEN DetectFailover(last_pool, parsed.pool, last_alert_time, now, r1, d1)
    ELSE NotCalled(last_alert_time, now)

\* The monitor_error_rate step of process_log_line (lines 204-205), on the
\* window w, after the failover step fo.
ErrorRateStep(w, fo, r2, d2) ==
    IF Decimated(w)
    THEN MonitorErrorRate(w, fo.res.tab, fo.res.t, r2, d2)
    ELSE NotCalled(fo.res.tab, fo.res.t)

\* process_log_line(line). (r1, d1) is the transport's answer to the
\* failover alert and (r2, d2) its answer to the error-rate alert.
ProcessLogLine(line, r1, d1, r2, d2) ==
    LET parsed == ParseLogLine(line) IN
    IF ~parsed.ok
    THEN /\ last_line' = line
         /\ data' = parsed
         /\ prev_pool' = last_pool
         /\ after_unknown' = (data.ok /\ data.pool = "unknown")
         /\ attempts' = <<>>
         /\ UNCHANGED <<config, state, now, seen, history, breachRun,
                        sinceEmit, deliveredKey, deliveredEvent, source>>
    ELSE
    LET pool == parsed.pool
        status == parsed.upstream_status
        w == DequeAppend(request_window, status, window_size)
        fo == FailoverStep(parsed, r1, d1)
        er == ErrorRateStep(w, fo, r2, d2)
        atts == (IF fo.called
                 THEN <<Attempt("Failover", fo, now)>>
                 ELSE <<>>)
                \o
                (IF er.called
                 THEN <<Attempt("HighErrorRate", er, fo.res.t)>>
                 ELSE <<>>)
        noted == NoteDeliveries(atts, deliveredKey, deliveredEvent)
    IN  /\ er.res.t <= MaxTime
        /\ request_window' = w
        /\ last_pool' = NextLastPool(last_pool, pool)
        /\ last_alert_time' = er.res.tab
        /\ now' = er.res.t
        /\ last_line' = line
        /\ data' = parsed
        /\ prev_pool' = last_pool
        /\ after_unknown' = (data.ok /\ data.pool = "unknown")
        /\ attempts' = atts
        /\ seen' = Min(seen + 1, MaxHistory + 1)
        /\ history' = IF seen < MaxHistory THEN Append(history, status)
                      ELSE <<>>
        /\ breachRun' = IF er.called \/ WindowNotFull(w)
                           \/ ~RateExceeds(w, error_threshold)
                        THEN 0
                        ELSE Min(breachRun + 1, MaxRun)
        /\ sinceEmit' = IF er.called THEN 0
                        ELSE IF sinceEmit = -1 THEN -1
                        ELSE Min(sinceEmit + 1, window_size)
        /\ deliveredKey' = noted[1]
        /\ deliveredEvent' = noted[2]
        /\ UNCHANGED <<config, source>>

\* The answers of the transport that matter to a call: any answer after any
\* delay if the request is made, a single one if it is not.
Answers(posted) ==
    IF posted THEN Responses \X (0..MaxDelay) ELSE {<<"200", 0>>}

\* A second passes.
Tick ==
    /\ now < MaxTime
    /\ now' = now + 1
    /\ UNCHANGED <<config, state, observed, source>>

Next ==
    \/ \E line \in Lines :
          LET parsed == ParseLogLine(line)
              p1 == parsed.ok /\ FailoverStep(parsed, "200", 0).res.posted
          IN  \E a1 \in Answers(p1) :
                LET p2 == parsed.ok /\
                          ErrorRateStep(
                              DequeAppend(request_window,
                                          parsed.upstream_status, window_size),
                              FailoverStep(parsed, a1[1], a1[2]),
                              "200", 0).res.posted
                IN  \E a2 \in Answers(p2) :
                      ProcessLogLine(line, a1[1], a1[2], a2[1], a2[2])
    \/ Tick

Spec == Init /\ [][Next]_vars

----------------------------------------------------------------------------
(* The line source: the log file and read_new_lines.                       *)

\* The characters the proxy writes: a character of a line, the terminator.
Chars == {"a", "\n"}

\* file.readlines() on the text s: s cut after every terminator; what
\* follows the last terminator, if anything, is the last item.
RECURSIVE ReadLines(_)
ReadLines(s) ==
    IF s = <<>> THEN <<>>
    ELSE IF \E i \in 1..Len(s) : s[i] = "\n"
    THEN LET i == CHOOSE i \in 1..Len(s) :
                     s[i] = "\n" /\ \A j \in 1..(i - 1) : s[j] # "\n"
         IN  <<SubSeq(s, 1, i)>> \o ReadLines(SubSeq(s, i + 1, Len(s)))
    ELSE <<s>>

\* The proxy appends a character to the log file.
Write(c) ==
    /\ file_exists
    /\ Len(file) < MaxFile
    /\ file' = Append(file, c)
    /\ UNCHANGED <<config, state, now, observed, file_exists, removals,
                   last_file_position, file_checked, new_lines, returned,
                   first_poll>>

\* The log file is rotated away.
Remove ==
    /\ file_exists
    /\ removals < MaxRemovals
    /\ file_exists' = FALSE
    /\ file' = <<>>
    /\ removals' = removals + 1
    /\ returned' = <<>>
    /\ first_poll' = "pending"
    /\ UNCHANGED <<config, state, now, observed, last_file_position,
                   file_checked, new_lines>>

\* The proxy creates the log file, empty.
Create ==
    /\ ~file_exists
    /\ file_exists' = TRUE
    /\ UNCHANGED <<config, state, now, observed, file, removals,
                   last_file_position, file_checked, new_lines, returned,
                   first_poll>>

\* The offset read_new_lines reads from when it finds the file at
\* current_size (lines 222-224).
StartOffset(current_size, position) ==
    IF current_size < position THEN 0 ELSE position

\* read_new_lines(log_file_path)
ReadNewLines ==
    IF ~file_exists
    THEN /\ file_checked' = TRUE
         /\ new_lines' = <<>>
         /\ UNCHANGED <<config, state, now, observed, file_exists, file,
                        removals, last_file_position, returned, first_poll>>
    ELSE LET current_size == Len(file)
             start == StartOffset(current_size, last_file_position)
             lines == IF current_size <= start THEN <<>>
                      ELSE ReadLines(SubSeq(file, start + 1, current_size))
         IN  /\ last_file_position' =
                   IF current_size <= start THEN start ELSE current_size
             /\ new_lines' = lines
             /\ returned' = returned \o lines
             /\ first_poll' =
                   IF first_poll # "pending" THEN first_poll
                   ELSE IF current_size < last_file_position THEN "shrunk"
                   ELSE IF last_file_position > 0 THEN "grown"
                   ELSE "fresh"
             /\ UNCHANGED <<config, state, now, observed, file_exists, file,
                            removals, file_checked>>

\* read_new_lines(log_file_path) when opening or reading the file raises.
ReadNewLinesRaises ==
    /\ file_exists
    /\ new_lines' = <<>>
    /\ UNCHANGED <<config, state, now, observed, file_exists, file, removals,
                   last_file_position, file_checked, returned, first_poll>>

\* The watcher of one deployment, before it has processed a line.
InitSource == Init /\ window_size = 11

NextSource ==
    \/ \E c \in Chars : Write(c)
    \/ Remove
    \/ Create
    \/ ReadNewLines
    \/ ReadNewLinesRaises

SpecSource == InitSource /\ [][NextSource]_vars

----------------------------------------------------------------------------
(* Properties.                                                             *)

\* The send_slack_alert calls of the last process_log_line call.
Attempts == {attempts[i] : i \in DOMAIN attempts}
FailoverAttempts == {a \in Attempts : a.kind = "Failover"}
ErrorRateAttempts == {a \in Attempts : a.kind = "HighErrorRate"}

\* C1: a notification attempt that does not end in a delivery (the transport
\* answers with a non-success status or raises, or the attempt is suppressed
\* by the cooldown or by the mute) leaves last_alert_time as it was: an
\* entry of the table is created or changed only by a Delivered attempt for
\* that key, which sets it to the clock value at the acknowledgment, and no
\* entry is ever removed.
C1_OnlyDeliveredWritesCooldown ==
    [][ /\ DOMAIN last_alert_time \subseteq DOMAIN last_alert_time'
        /\ \A k \in DOMAIN last_alert_time' :
              (k \notin DOMAIN last_alert_time
                 \/ last_alert_time'[k] # last_alert_time[k])
              => \E a \in Attempts' :
                    /\ a.alert_type = k
                    /\ a.outcome = "Delivered"
                    /\ last_alert_time'[k] = a.done
        /\ (\A a \in Attempts' : a.outcome # "Delivered")
              => last_alert_time' = last_alert_time ]_vars

\* C1 witness: the transport was called for a key delivered before and
\* failed, and the key's entry is still the time of that earlier delivery.
C1_Witness ==
    \E a \in Attempts :
        /\ a.outcome = "Failed" /\ a.posted
        /\ a.prevKey >= 0
        /\ a.alert_type \in DOMAIN last_alert_time
        /\ last_alert_time[a.alert_type] = a.prevKey

\* C2: the cooldown of a failover is decided by the deliveries of the same
\* ordered (from, to) pair alone, and the cooldown of a high error rate by
\* the deliveries of high-error-rate alerts alone: an event whose own last
\* delivery is less than cooldown_sec old is suppressed for cooldown, and an
\* event whose own last delivery is at least cooldown_sec old, or that was
\* never delivered while the clock is past cooldown_sec, is not, whatever
\* was delivered for other pairs (blue->green, then green->blue in between).
C2_CooldownKeyedPerOrderedPair ==
    ~maintenance_mode =>
    \A a \in Attempts :
        /\ (a.prevEvent >= 0 /\ a.at - a.prevEvent < cooldown_sec)
              => a.outcome = "SuppressedCooldown"
        /\ (a.prevEvent >= 0 /\ a.at - a.prevEvent >= cooldown_sec)
              => a.outcome # "SuppressedCooldown"
        /\ (a.prevEvent < 0 /\ a.at >= cooldown_sec)
              => a.outcome # "SuppressedCooldown"

\* C3: two deliveries under the same cooldown key are at least cooldown_sec
\* apart; an attempt made less than cooldown_sec after the last delivery of
\* its key is suppressed for cooldown without calling the transport, and an
\* attempt made cooldown_sec or more after it is not suppressed for
\* cooldown.
C3_CooldownSpacing ==
    \A a \in Attempts :
        /\ (a.outcome = "Delivered" /\ a.prevKey >= 0)
              => a.done - a.prevKey >= cooldown_sec
        /\ (~maintenance_mode /\ a.prevKey >= 0
               /\ a.at - a.prevKey < cooldown_sec)
              => (a.outcome = "SuppressedCooldown" /\ ~a.posted)
        /\ (a.prevKey >= 0 /\ a.at - a.prevKey >= cooldown_sec)
              => a.outcome # "SuppressedCooldown"

\* C3 witness: a key is delivered again exactly cooldown_sec after its last
\* delivery.
C3_Witness ==
    \E a \in Attempts :
        /\ a.outcome = "Delivered"
        /\ a.prevKey >= 0
        /\ a.at - a.prevKey = cooldown_sec

\* C4: while maintenance_mode is set every notification attempt is
\* suppressed as muted, whatever the cooldown check would say, the transport
\* is not called, no time is spent and the cooldown table stays as it was.
C4_MuteSuppressesAll ==
    maintenance_mode =>
        /\ \A a \in Attempts :
              a.outcome = "SuppressedMuted" /\ ~a.posted /\ a.done = a.at
        /\ last_alert_time = <<>>

\* C4 witness: muted attempts, one for a failover and one for the error
\* rate, at a clock value at which the cooldown check refuses.
C4_Witness ==
    /\ maintenance_mode
    /\ \E a \in FailoverAttempts : ~CanSendAlert(last_alert_time, a.at,
                                                  a.alert_type)
    /\ ErrorRateAttempts # {}

\* C5: a record processed while last_pool is unset (the first record, and
\* every record until a pool that is not unknown was seen) raises no
\* failover, and leaves last_pool unset or set to its own pool.
C5_ColdStartNoFailover ==
    (data.ok /\ prev_pool = None) =>
        /\ FailoverAttempts = {}
        /\ last_pool = IF data.pool = "unknown" THEN None ELSE data.pool

\* C5 witness: the first record named a pool, which is now last_pool.
C5_Witness ==
    /\ seen = 1 /\ data.ok /\ prev_pool = None
    /\ last_pool = "green"
    /\ attempts = <<>>

\* C6: processing a record raises a failover exactly when its pool is not
\* unknown and last_pool was set and differs from it; the failover is
\* raised once, from last_pool to the record's pool, and last_pool is then
\* the record's pool. A record with an unknown pool leaves last_pool alone.
C6_FailoverOnPoolChange ==
    data.ok =>
        /\ (FailoverAttempts # {})
              <=> (data.pool # "unknown" /\ prev_pool # None
                     /\ prev_pool # data.pool)
        /\ \A a \in FailoverAttempts :
              a.from = prev_pool /\ a.to = data.pool
        /\ Cardinality({i \in DOMAIN attempts :
                           attempts[i].kind = "Failover"}) <= 1
        /\ last_pool = IF data.pool = "unknown" THEN prev_pool ELSE data.pool

\* C6 witness: the third record is the first of pool green after blue, and
\* one failover blue -> green is raised on it.
C6_Witness ==
    /\ seen = 3 /\ data.ok
    /\ prev_pool = "blue" /\ data.pool = "green"
    /\ \E a \in FailoverAttempts : a.from = "blue" /\ a.to = "green"

\* C7: when a high error rate is raised the window is cleared, so a second
\* one is raised only after window_size further records.
C7_WindowClearedOnAlert ==
    \A a \in ErrorRateAttempts :
        /\ request_window = <<>>
        /\ a.gap = -1 \/ a.gap >= window_size

\* C8: no high error rate is raised while the window holds fewer than
\* window_size entries.
C8_NoAlertOnPartialWindow ==
    ErrorRateAttempts # {} => Len(request_window) >= window_size

\* C8 witness: the error-rate check ran on a window that is not full yet
\* and is above the threshold, and raised nothing.
C8_Witness ==
    /\ data.ok
    /\ Decimated(request_window)
    /\ Len(request_window) < window_size
    /\ RateExceeds(request_window, error_threshold)
    /\ ErrorRateAttempts = {}

\* C9: whatever window_size is, a full window above the threshold raises a
\* high error rate within DecimationInterval further records that keep it
\* above the threshold.
C9_BreachDetectedWithinInterval ==
    breachRun <= DecimationInterval

\* C10: the window never holds more than window_size entries, and it holds
\* the statuses of the most recent min(records processed, window_size)
\* records in arrival order.
C10_WindowIsRecentRecords ==
    /\ Len(request_window) <= window_size
    /\ seen <= MaxHistory
          => request_window = LastK(history, Min(seen, window_size))

\* C10 witness: more records than window_size were processed, the oldest
\* being an error that the window no longer holds.
C10_Witness ==
    /\ seen > window_size /\ seen <= MaxHistory
    /\ history[1] = S502
    /\ \A i \in DOMAIN request_window : request_window[i] = S200

\* The number of commas in the text s.
Commas(s) == Cardinality({i \in 1..Len(s) : s[i] = ","})

\* The text s without leading spaces.
RECURSIVE TrimLeft(_)
TrimLeft(s) == IF s # <<>> /\ Head(s) = " " THEN TrimLeft(Tail(s)) ELSE s

\* The first and the last item of the comma-separated list s.
FirstItem(s) ==
    IF Commas(s) = 0 THEN s
    ELSE SubSeq(s, 1, (CHOOSE i \in 1..Len(s) :
                          s[i] = "," /\ \A j \in 1..(i - 1) : s[j] # ",") - 1)
LastItem(s) ==
    IF Commas(s) = 0 THEN s
    ELSE TrimLeft(SubSeq(s, (CHOOSE i \in 1..Len(s) :
                               s[i] = "," /\ \A j \in (i + 1)..Len(s) : s[j] # ",")
                            + 1, Len(s)))

\* C11: the window entry appended for a record is an error exactly when the
\* record's upstream_status is in 500-599 or the status sent to the client
\* is in 500-599.
C11_ErrorIfUpstreamOrClientStatus ==
    data.ok =>
        (IsServerError(request_window[Len(request_window)])
           <=> (IsServerError(last_line.upstream_status)
                  \/ IsServerError(last_line.status)))

\* C12: a line that carries several comma-separated upstream statuses and
\* as many upstream addresses, the first status being a server error or
\* empty, raises an attempt-level failover from the first address to the
\* last one.
C12_AttemptLevelFailover ==
    (/\ last_line.shaped
     /\ Commas(last_line.upstream_status) >= 1
     /\ Commas(last_line.upstream_status) = Commas(last_line.upstream_addr)
     /\ \/ FirstItem(last_line.upstream_status) = <<>>
        \/ IsServerError(FirstItem(last_line.upstream_status)))
    => \E a \in Attempts :
          /\ a.kind = "AttemptFailover"
          /\ a.from = FirstItem(last_line.upstream_addr)
          /\ a.to = LastItem(last_line.upstream_addr)

\* The characters of the items of chunks, in order.
RECURSIVE Flatten(_)
Flatten(chunks) ==
    IF chunks = <<>> THEN <<>> ELSE Head(chunks) \o Flatten(Tail(chunks))

\* TRUE iff the text s ends with the terminator.
Terminated(s) == s # <<>> /\ s[Len(s)] = "\n"

\* The complete lines of the text s, with their terminators.
CompleteLines(s) == SelectSeq(ReadLines(s), Terminated)

\* C13: when a poll finds the file smaller than the recorded offset, reading
\* resumes from the start of the new file and every complete line of the new
\* file is returned exactly once: what the polls returned from that file so
\* far is the sequence of the complete lines of the part of it that was read.
C13_LinesOnceAfterShrink ==
    (file_exists /\ first_poll = "shrunk")
    => returned = CompleteLines(SubSeq(file, 1, last_file_position))

\* C14: when the file was replaced by a new file that the next poll finds at
\* a size of at least the old offset, the offset is reset all the same and
\* nothing of the new file is skipped: what the polls returned from it is
\* its content up to the offset.
C14_ReplacedFileReadFromStart ==
    (file_exists /\ first_poll = "grown")
    => Flatten(returned) = SubSeq(file, 1, last_file_position)

\* C15: a poll never returns an unterminated trailing fragment of a line:
\* every item it returns ends with the terminator.
C15_NoUnterminatedFragment ==
    \A i \in DOMAIN new_lines : Terminated(new_lines[i])

\* C16: processing a line that does not parse as a record leaves the error
\* window, last_pool and the cooldown table unchanged and emits no event.
C16_UnparseableLineChangesNothing ==
    [][ ~LogPatternMatches(last_line')
           => (state' = state /\ attempts' = <<>>) ]_vars

C16_Witness ==
    /\ ~LogPatternMatches(last_line)
    /\ last_line.shaped
    /\ request_window # <<>>
    /\ last_pool # None
    /\ last_alert_time # <<>>

\* The statuses of a line that are outside 500-599, and the window entries
\* that stand for them.
NonErrorStatuses == {S200, SDash}
NonErrorEntries == {S200, S000}

\* The last record had an upstream_status and a client status outside
\* 500-599.
NonErrorRecord ==
    /\ data.ok
    /\ last_line.upstream_status \in NonErrorStatuses
    /\ last_line.status \in NonErrorStatuses

\* C17 as stated: a record whose upstream_status and status are outside
\* 500-599 adds a non-error entry to the window and raises no event at all,
\* whatever its pool.
C17_NonErrorRecordRaisesNothing ==
    NonErrorRecord
    => /\ request_window[Len(request_window)] \in NonErrorEntries
       /\ attempts = <<>>

\* C17, amended: such a record adds a non-error entry to the window; it
\* raises a Failover only from the current pool to its own, different pool,
\* and a HighErrorRate only when the full window, with the new entry, still
\* holds error entries of earlier records above the threshold.
C17_NonErrorRecordAddsNoError ==
    NonErrorRecord
    => /\ request_window[Len(request_window)] \in NonErrorEntries
       /\ \A a \in FailoverAttempts :
             a.from = prev_pool /\ a.to = data.pool /\ a.from # a.to
       /\ \A a \in ErrorRateAttempts :
             /\ Len(request_window) = window_size
             /\ Cardinality({i \in DOMAIN request_window :
                                request_window[i] = S502}) * 100
                  > error_threshold * window_size

C17_Witness ==
    /\ NonErrorRecord
    /\ \E a \in ErrorRateAttempts : a.outcome = "Delivered"

\* C18: with no webhook configured, every send_slack_alert call that is
\* neither muted nor suppressed by the cooldown ends as Failed without a
\* call of the transport and the cooldown table stays as it was, while
\* detection goes on: the window holds the records processed and last_pool
\* follows the pools of the records.
C18_NoWebhookFailsWithoutTransport ==
    ~slack_webhook
    => /\ \A a \in Attempts :
             /\ ~a.posted
             /\ a.done = a.at
             /\ a.outcome \notin {"SuppressedMuted", "SuppressedCooldown"}
                  => a.outcome = "Failed"
       /\ last_alert_time = <<>>
       /\ seen <= MaxHistory
            => request_window
                 = LastK(history, Min(Len(history), window_size))
       /\ (data.ok /\ data.pool # "unknown") => last_pool = data.pool

C18_Witness ==
    /\ ~slack_webhook
    /\ \E a \in FailoverAttempts : a.outcome = "Failed"
    /\ \E a \in ErrorRateAttempts : a.outcome = "Failed"
    /\ last_pool = data.pool
    /\ Len(request_window) = window_size

\* C19: last_pool is never 'unknown'; a record with pool 'unknown' leaves
\* last_pool as it was and raises no Failover, so a record with another
\* pool that comes after it still raises the Failover from the pool seen
\* before it ([blue, unknown, green] raises Failover(blue -> green) on the
\* third record).
C19_UnknownPoolIsSkipped ==
    /\ last_pool # "unknown"
    /\ (data.ok /\ data.pool = "unknown")
         => (last_pool = prev_pool /\ FailoverAttempts = {})
    /\ (data.ok /\ after_unknown /\ data.pool # "unknown"
          /\ prev_pool \notin {None, data.pool})
         => \E a \in FailoverAttempts :
               a.from = prev_pool /\ a.to = data.pool

C19_Witness ==
    /\ seen = 3
    /\ after_unknown
    /\ data.ok /\ data.pool = "green"
    /\ prev_pool = "blue"
    /\ \E a \in FailoverAttempts : a.from = "blue" /\ a.to = "green"

\* C20: a send_slack_alert call for an alert type that has no entry in the
\* cooldown table (no earlier delivery under that type) is never suppressed
\* by the cooldown, whatever the clock value.
C20_NoEntryNoCooldown ==
    \A a \in Attempts :
        a.prevKey = -1 => a.outcome # "SuppressedCooldown"

====
